---- MODULE Spec2Model ----
(***************************************************************************)
(* Alert lifecycle engine of monitoring/advanced-alerting-system.py:       *)
(* AdvancedNotificationManager (create / suppress / deduplicate, the       *)
(* notification workers' level-0 fan-out, the per-level escalation timers, *)
(* acknowledge / resolve and the periodic sweep).                          *)
(*                                                                         *)
(* Threads of the program and how they appear here:                        *)
(*   - callers of create_alert: one call per generated id, split at the    *)
(*     point where another thread can run between the duplicate scan and   *)
(*     the insertion into active_alerts;                                   *)
(*   - callers of acknowledge_alert / resolve_alert: one step per call;    *)
(*   - notification workers (threading.Thread, queue.Queue consumers);     *)
(*   - one threading.Timer thread per armed (alert, level);                *)
(*   - the escalation processor thread (process_escalations).              *)
(* Time is in seconds; the clock advances in steps of TickSeconds.         *)
(***************************************************************************)
EXTENDS Naturals, Integers, Sequences, FiniteSets, Bags, TLC

\* ------------------------------------------------------------------ bounds
\* Spec: one alert through its whole life, with failing channels and a
\* failing database.  SpecPair: two alerts, reliable environment.
\* SpecConfig: one alert of any severity created at one of several times of
\* day, under each of several policy tables and suppression rule tables.
MaxAlerts == 1
MaxPairAlerts == 2
NumWorkers == 2
MaxTime == 600
MaxPairTime == 300
MaxSweepRuns == 2
MaxDbFailures == 1
MaxConfigAlerts == 1
MaxHealthAlerts == 2
MaxLiveAlerts == 2
TickSeconds == 60 * 5

\* ------------------------------------------------------------ enumerations
\* AlertSeverity values used as inputs of create_alert
INFO == "info"
LOW == "low"
MEDIUM == "medium"
HIGH == "high"
CRITICAL == "critical"
EMERGENCY == "emergency"

\* AlertStatus (NEW is a reserved word of TLA+: STATUS_NEW)
STATUS_NEW == "new"
ACKNOWLEDGED == "acknowledged"
IN_PROGRESS == "in_progress"
RESOLVED == "resolved"
CLOSED == "closed"
ESCALATED == "escalated"
SUPPRESSED == "suppressed"
AlertStatus == {STATUS_NEW, ACKNOWLEDGED, IN_PROGRESS, RESOLVED, CLOSED, ESCALATED, SUPPRESSED}

\* NotificationChannel
EMAIL == "email"
SLACK == "slack"
DISCORD == "discord"
SMS == "sms"
TELEGRAM == "telegram"
WEBHOOK == "webhook"
PUSH_NOTIFICATION == "push"

\* EscalationAction
NOTIFY_NEXT_LEVEL == "notify_next_level"
ESCALATE_MANAGER == "escalate_manager"
CALL_ONDUTY == "call_onduty"
PAGING_SYSTEM == "paging_system"
SMS_BROADCAST == "sms_broadcast"
AUTO_RESOLUTION == "auto_resolution"

None == "None"

\* ------------------------------------------------------------ configuration
\* Keys of EscalationPolicy.time_thresholds.  The dictionary is a Python dict:
\* a severity key (an Enum member) never equals an int level key.
SeverityKey(s) == [kind |-> "severity", sev |-> s, lvl |-> 0]
LevelKey(l) == [kind |-> "level", sev |-> None, lvl |-> l]

\* EscalationPolicy records.  notification_channels and escalation_rules are
\* dicts keyed by level; time_thresholds is a set of (key, seconds) entries.
standard_policy ==
    [name |-> "standard",
     severity_levels |-> <<CRITICAL, HIGH, MEDIUM, LOW>>,
     time_thresholds |-> {[key |-> SeverityKey(CRITICAL), secs |-> 300],
                          [key |-> SeverityKey(HIGH), secs |-> 900],
                          [key |-> SeverityKey(MEDIUM), secs |-> 1800],
                          [key |-> SeverityKey(LOW), secs |-> 3600]},
     notification_channels |-> (0 :> <<EMAIL>>) @@ (1 :> <<SLACK, EMAIL>>)
                               @@ (2 :> <<DISCORD, SMS>>) @@ (3 :> <<TELEGRAM, WEBHOOK>>)
                               @@ (4 :> <<PUSH_NOTIFICATION, SMS>>),
     escalation_rules |-> (1 :> NOTIFY_NEXT_LEVEL) @@ (2 :> ESCALATE_MANAGER)
                          @@ (3 :> CALL_ONDUTY) @@ (4 :> PAGING_SYSTEM),
     max_escalation_level |-> 4]

emergency_policy ==
    [name |-> "emergency",
     severity_levels |-> <<EMERGENCY, CRITICAL>>,
     time_thresholds |-> {[key |-> SeverityKey(EMERGENCY), secs |-> 60],
                          [key |-> SeverityKey(CRITICAL), secs |-> 180]},
     notification_channels |-> (0 :> <<SMS, TELEGRAM, PUSH_NOTIFICATION>>)
                               @@ (1 :> <<SLACK, DISCORD>>) @@ (2 :> <<EMAIL, WEBHOOK>>),
     escalation_rules |-> (1 :> CALL_ONDUTY) @@ (2 :> PAGING_SYSTEM) @@ (3 :> SMS_BROADCAST),
     max_escalation_level |-> 3]

\* The policies setup_escalation_policies installs, in dict insertion order.
BuiltinPolicies == <<standard_policy, emergency_policy>>

\* A policy whose time_thresholds are keyed by level, the key
\* schedule_escalation looks up (level in policy.time_thresholds).
level_policy ==
    [name |-> "level",
     severity_levels |-> <<HIGH>>,
     time_thresholds |-> {[key |-> LevelKey(1), secs |-> 300],
                          [key |-> LevelKey(2), secs |-> 600]},
     notification_channels |-> (0 :> <<EMAIL, SLACK>>) @@ (1 :> <<SLACK, EMAIL>>)
                               @@ (2 :> <<SMS, EMAIL>>),
     escalation_rules |-> (1 :> NOTIFY_NEXT_LEVEL) @@ (2 :> ESCALATE_MANAGER),
     max_escalation_level |-> 2]

\* A policy for MEDIUM whose only escalation action is AUTO_RESOLUTION.
auto_resolve_policy ==
    [name |-> "auto_resolve",
     severity_levels |-> <<MEDIUM>>,
     time_thresholds |-> {[key |-> LevelKey(1), secs |-> 300]},
     notification_channels |-> (0 :> <<EMAIL>>) @@ (1 :> <<EMAIL>>),
     escalation_rules |-> (1 :> AUTO_RESOLUTION),
     max_escalation_level |-> 1]

\* A policy for CRITICAL shaped like the last level of the built-in
\* 'emergency' policy: an escalation action for a level that has no
\* notification channel list.
action_only_policy ==
    [name |-> "action_only",
     severity_levels |-> <<CRITICAL>>,
     time_thresholds |-> {[key |-> LevelKey(1), secs |-> 300]},
     notification_channels |-> (0 :> <<EMAIL>>),
     escalation_rules |-> (1 :> SMS_BROADCAST),
     max_escalation_level |-> 1]

LevelKeyedPolicies == <<level_policy, auto_resolve_policy, action_only_policy>>

\* The same with a single escalation level (thresholds {1: 300}, channels
\* {0: [email], 1: [slack, email]}).
single_level_policy ==
    [name |-> "single_level",
     severity_levels |-> <<HIGH>>,
     time_thresholds |-> {[key |-> LevelKey(1), secs |-> 300]},
     notification_channels |-> (0 :> <<EMAIL>>) @@ (1 :> <<SLACK, EMAIL>>),
     escalation_rules |-> (1 :> NOTIFY_NEXT_LEVEL),
     max_escalation_level |-> 1]

SingleLevelPolicies == <<single_level_policy>>

\* A suppression rule (rule_config of is_suppressed).  has_* says whether the
\* key is present in the rule; times are seconds since midnight.  A rule
\* without start_time / end_time carries the defaults '00:00' and '23:59'.
DefaultStartTime == 0
DefaultEndTime == 23 * 3600 + 59 * 60

night_low_rule ==
    [name |-> "night_low", has_time_based |-> TRUE, time_based |-> TRUE,
     start_time |-> 0, end_time |-> 6 * 3600,
     has_categories |-> FALSE, categories |-> {},
     has_sources |-> FALSE, sources |-> {},
     has_severities |-> TRUE, severities |-> {LOW}]

\* A rule with a severities clause only: no time_based, start_time or
\* end_time key.
low_only_rule ==
    [name |-> "low_only", has_time_based |-> FALSE, time_based |-> TRUE,
     start_time |-> DefaultStartTime, end_time |-> DefaultEndTime,
     has_categories |-> FALSE, categories |-> {},
     has_sources |-> FALSE, sources |-> {},
     has_severities |-> TRUE, severities |-> {LOW}]

\* A rule with time_based: False and category and source clauses.
untimed_database_rule ==
    [name |-> "untimed_database", has_time_based |-> TRUE, time_based |-> FALSE,
     start_time |-> 0, end_time |-> 6 * 3600,
     has_categories |-> TRUE, categories |-> {"database"},
     has_sources |-> TRUE, sources |-> {"postgres-primary"},
     has_severities |-> FALSE, severities |-> {}]

\* A rule for another category.
network_rule ==
    [name |-> "network", has_time_based |-> TRUE, time_based |-> FALSE,
     start_time |-> DefaultStartTime, end_time |-> DefaultEndTime,
     has_categories |-> TRUE, categories |-> {"network"},
     has_sources |-> FALSE, sources |-> {},
     has_severities |-> FALSE, severities |-> {}]

\* Suppression rule tables, in dict order.
RuleConfigs ==
    {<<>>, <<night_low_rule>>, <<low_only_rule>>, <<network_rule, night_low_rule>>,
     <<untimed_database_rule>>}

\* The built-in policies inserted in the other order.
ReversedBuiltinPolicies == <<emergency_policy, standard_policy>>

\* Policy tables, in dict order.
PolicyConfigs == {BuiltinPolicies, ReversedBuiltinPolicies, LevelKeyedPolicies}

\* Times of day at which the alert is created: 03:00:00, 12:00:00, 23:59:30.
StartTimes == {3 * 3600, 12 * 3600, 23 * 3600 + 59 * 60 + 30}

\* Manager configurations: (escalation_policies, suppression_rules).
Configs ==
    {[escalation_policies |-> BuiltinPolicies, suppression_rules |-> <<night_low_rule>>],
     [escalation_policies |-> LevelKeyedPolicies, suppression_rules |-> <<night_low_rule>>]}

PairConfigs ==
    {[escalation_policies |-> SingleLevelPolicies, suppression_rules |-> <<night_low_rule>>]}

\* self.notification_channels: the channels enabled in the configuration.
ConfiguredChannels == {EMAIL, SLACK}

\* Inputs of create_alert.
Severities == {LOW, HIGH}
SingleSeverities == {LOW, MEDIUM, HIGH, CRITICAL}
AllSeverities == {INFO, LOW, MEDIUM, HIGH, CRITICAL, EMERGENCY}
DedupKeys == {None, "db-down"}
Category == "database"
Source == "postgres-primary"

Ids == 1 .. (IF MaxAlerts >= MaxPairAlerts /\ MaxAlerts >= MaxLiveAlerts THEN MaxAlerts
             ELSE IF MaxPairAlerts >= MaxLiveAlerts THEN MaxPairAlerts
             ELSE MaxLiveAlerts)
Workers == 1 .. NumWorkers
\* An id no create_alert call ever generated.
UnknownId == MaxAlerts + MaxPairAlerts + MaxLiveAlerts + 1

\* ------------------------------------------------------------------- state
VARIABLES
    escalation_policies,  \* self.escalation_policies (sequence, insertion order)
    suppression_rules,    \* self.suppression_rules
    clock,                \* datetime.now() / time.time(), seconds
    nextId,               \* the next value uuid.uuid4() yields
    alerts,               \* the Alert objects, by id
    active_alerts,        \* keys of self.active_alerts
    alert_queue,          \* self.alert_queue
    create_call,          \* per create_alert call: progress, outcome, result
    worker,               \* per notification worker: position in process_alert
    timer,                \* per (alert, level): the threading.Timer and its callback
    alerts_table,         \* rows of table alerts (save_alert)
    notifications,        \* rows of table notifications (save_notification), a bag
    sends,                \* calls of channel.send with their outcome, a bag
    actions_run,          \* escalation actions executed, a bag
    call_result,          \* what the last acknowledge_alert / resolve_alert call returned
    resolve_ok,           \* ids for which resolve_alert has returned True
    channel_up,           \* per configured channel: does its send succeed or raise
    db_failures,          \* number of sqlite calls that have raised so far
                          \* (at most MaxDbFailures are injected)
    health_manager        \* the AlertManager of advanced-health-check-system.py:
                          \* its handlers, their health, the send_alert calls
                          \* made and the handler sends they attempted

vars == <<escalation_policies, suppression_rules, clock, nextId, alerts, active_alerts,
          alert_queue, create_call, worker, timer, alerts_table, notifications, sends,
          actions_run, call_result, resolve_ok, channel_up, db_failures, health_manager>>
\* ----------------------------------------------------------------- helpers
ActiveStatuses == {STATUS_NEW, ACKNOWLEDGED, IN_PROGRESS, ESCALATED}
TerminalStatuses == {RESOLVED, CLOSED}

Range(q) == {q[i] : i \in DOMAIN q}

\* get_escalation_policy: the first policy, in insertion order, whose
\* severity_levels contain the severity; has_policy is "the result is not None".
has_policy(severity) ==
    \E i \in DOMAIN escalation_policies :
        severity \in Range(escalation_policies[i].severity_levels)

\* The scan keeping the last policy that lists the severity.
get_escalation_policy_last_match(severity) ==
    LET matching == {i \in DOMAIN escalation_policies :
                        severity \in Range(escalation_policies[i].severity_levels)}
        last == CHOOSE i \in matching : \A j \in matching : j <= i
    IN  escalation_policies[last]

get_escalation_policy(severity) ==
    LET matching == {i \in DOMAIN escalation_policies :
                        severity \in Range(escalation_policies[i].severity_levels)}
        first == CHOOSE i \in matching : \A j \in matching : i <= j
    IN  escalation_policies[first]

\* policy.notification_channels.get(level, [])
channels_of(policy, level) ==
    IF level \in DOMAIN policy.notification_channels
    THEN policy.notification_channels[level]
    ELSE <<>>

\* level in policy.time_thresholds / policy.time_thresholds[level]
has_threshold(policy, level) ==
    \E e \in policy.time_thresholds : e.key = LevelKey(level)

threshold_of(policy, level) ==
    (CHOOSE e \in policy.time_thresholds : e.key = LevelKey(level)).secs

\* alert.timestamp.time(): seconds since midnight
time_of_day(timestamp) == timestamp % 86400

\* One rule of is_suppressed: every clause the rule carries must match; the
\* window is tested when rule_config.get('time_based', True) is true.
rule_matches(rule, alert) ==
    /\ (IF rule.has_time_based THEN rule.time_based ELSE TRUE) =>
          /\ rule.start_time <= time_of_day(alert.timestamp)
          /\ time_of_day(alert.timestamp) <= rule.end_time
    /\ rule.has_categories => alert.category \in rule.categories
    /\ rule.has_sources => alert.source \in rule.sources
    /\ rule.has_severities => alert.severity \in rule.severities

is_suppressed(alert) ==
    \E i \in DOMAIN suppression_rules : rule_matches(suppression_rules[i], alert)

\* The scan without the status test: any alert of the index with the key counts.
is_duplicate_any_status(alert) ==
    /\ alert.dedup_key # None
    /\ \E id \in active_alerts : alerts[id].dedup_key = alert.dedup_key

\* is_duplicate: scans self.active_alerts.values()
is_duplicate(alert) ==
    /\ alert.dedup_key # None
    /\ \E id \in active_alerts :
          /\ alerts[id].dedup_key = alert.dedup_key
          /\ alerts[id].status \in {STATUS_NEW, ACKNOWLEDGED, IN_PROGRESS}

\* The Alert object create_alert builds.
new_alert(id, severity, dedup_key) ==
    [id |-> id, severity |-> severity, category |-> Category, source |-> Source,
     timestamp |-> clock, status |-> STATUS_NEW, escalation_level |-> 0,
     dedup_key |-> dedup_key, metadata |-> {}, acknowledged_by |-> None,
     resolved_by |-> None]

\* The row save_alert writes (INSERT OR REPLACE, keyed by id).
NoRow == [present |-> FALSE, status |-> None, escalation_level |-> 0]
row_of(alert) ==
    [present |-> TRUE, status |-> alert.status, escalation_level |-> alert.escalation_level]

\* The highest level any configured policy allows.
AllPolicies == UNION {Range(c.escalation_policies) : c \in Configs \cup PairConfigs}
MaxLevel == CHOOSE m \in {p.max_escalation_level : p \in AllPolicies} :
                \A p \in AllPolicies : p.max_escalation_level <= m
Levels == 1 .. MaxLevel

Created == DOMAIN alerts

\* -------------------------------------------------------------------- Init
NoCall == None
IdleWorker == [pc |-> "idle", alert |-> 0]
NoTimer == [pc |-> "none"]

\* The manager after __init__, for a configuration c.
Constructed(c) ==
    /\ escalation_policies = c.escalation_policies
    /\ suppression_rules = c.suppression_rules
    /\ clock = 0
    /\ nextId = 1
    /\ alerts = <<>>
    /\ active_alerts = {}
    /\ alert_queue = <<>>
    /\ create_call = <<>>
    /\ worker = [w \in Workers |-> IdleWorker]
    /\ timer = [id \in Ids |-> [l \in Levels |-> NoTimer]]
    /\ alerts_table = [id \in Ids |-> NoRow]
    /\ notifications = EmptyBag
    /\ sends = EmptyBag
    /\ actions_run = EmptyBag
    /\ call_result = NoCall
    /\ resolve_ok = {}

\* ------------------------------- AlertManager of the health-check system
\* AlertSeverity of advanced-health-check-system.py and the channel names
\* setup_notification_handlers knows.
HealthSeverities == {LOW, MEDIUM, HIGH, CRITICAL}
HealthChannels == {EMAIL, SLACK, DISCORD}

\* An AlertManager without any enabled handler, before any send_alert call.
NoHealthManager ==
    [notification_handlers |-> {},
     handler_up |-> [c \in {EMAIL, SLACK} |-> TRUE],
     calls |-> <<>>,
     attempts |-> <<>>]

\* setup_notification_handlers: a handler for each enabled channel of the
\* configuration; handler_up says whether the handler's send returns or raises.
HealthManagers ==
    [notification_handlers : SUBSET HealthChannels,
     handler_up : [{EMAIL, SLACK} -> BOOLEAN],
     calls : {<<>>},
     attempts : {<<>>}]

\* get_channels_for_alert; coin is the outcome of random.random() > 0.5
get_channels_for_alert(severity, coin) ==
    IF severity = CRITICAL THEN <<EMAIL, SLACK>>
    ELSE IF severity = HIGH THEN <<EMAIL>>
    ELSE IF severity = MEDIUM THEN (IF coin THEN <<EMAIL>> ELSE <<>>)
    ELSE IF severity = LOW THEN <<SLACK>>
    ELSE <<>>

attempt_record(call, channel, ok) == [call |-> call, channel |-> channel, ok |-> ok]

\* The channel loop of send_alert, inside the single try of the method: a
\* handler that raises ends the loop (the except clause logs the error).
RECURSIVE send_alert_loop(_, _, _)
send_alert_loop(call, q, attempts) ==
    IF q = <<>> THEN attempts
    ELSE LET c == Head(q)
         IN  IF c \in health_manager.notification_handlers
             THEN IF health_manager.handler_up[c]
                  THEN send_alert_loop(call, Tail(q),
                                       Append(attempts, attempt_record(call, c, TRUE)))
                  ELSE Append(attempts, attempt_record(call, c, FALSE))
             ELSE send_alert_loop(call, Tail(q), attempts)

\* AlertManager.send_alert(alert) for an alert of the given severity
send_alert(severity, coin) ==
    /\ LET call == Len(health_manager.calls) + 1
       IN  health_manager' =
              [health_manager EXCEPT
                  !.calls = Append(@, [severity |-> severity, coin |-> coin]),
                  !.attempts = send_alert_loop(call, get_channels_for_alert(severity, coin), @)]
    /\ UNCHANGED <<escalation_policies, suppression_rules, clock, nextId, alerts,
                   active_alerts, alert_queue, create_call, worker, timer, alerts_table,
                   notifications, sends, actions_run, call_result, resolve_ok, channel_up,
                   db_failures>>

Init ==
    /\ \E c \in Configs : Constructed(c)
    /\ channel_up \in [ConfiguredChannels -> BOOLEAN]
    /\ db_failures = 0
    /\ health_manager = NoHealthManager

\* Two alerts: every channel up, no database failure left to inject.
InitPair ==
    /\ \E c \in PairConfigs : Constructed(c)
    /\ channel_up = [c \in ConfiguredChannels |-> TRUE]
    /\ db_failures = MaxDbFailures
    /\ health_manager = NoHealthManager

add_one(bag, e) == bag (+) SetToBag({e})

\* Outcomes of one sqlite call: it succeeds, or (while the model's budget of
\* failures lasts) raises.  n is the number of calls that raised before it.
DbOutcomes(n) == IF db_failures + n < MaxDbFailures THEN BOOLEAN ELSE {TRUE}

\* ------------------------------------------------------------ create_alert
\* create_alert without the return that follows the suppression branch.
create_alert_check_no_return(severity, dedup_key) ==
    /\ LET id == nextId
           built == new_alert(id, severity, dedup_key)
           alert == IF is_suppressed(built) THEN [built EXCEPT !.status = SUPPRESSED] ELSE built
       IN  /\ nextId' = nextId + 1
           /\ alerts' = alerts @@ (id :> alert)
           /\ IF is_duplicate(alert)
              THEN create_call' = create_call @@
                      (id :> [pc |-> "returned", outcome |-> "duplicate", value |-> id])
              ELSE create_call' = create_call @@
                      (id :> [pc |-> "inserting", outcome |-> "accepted", value |-> 0])
    /\ UNCHANGED <<health_manager, escalation_policies, suppression_rules, channel_up, db_failures, clock,
                   active_alerts, alert_queue, worker, timer, alerts_table, notifications,
                   sends, actions_run, call_result, resolve_ok>>

\* First part of create_alert: uuid4, the Alert object, is_suppressed and
\* is_duplicate.  A suppressed or duplicate alert is returned at once; the
\* object is kept here only so that later states can be asked about it.
create_alert_check(severity, dedup_key) ==
    /\ LET id == nextId
           alert == new_alert(id, severity, dedup_key)
       IN  /\ nextId' = nextId + 1
           /\ IF is_suppressed(alert)
              THEN /\ alerts' = alerts @@ (id :> [alert EXCEPT !.status = SUPPRESSED])
                   /\ create_call' = create_call @@
                         (id :> [pc |-> "returned", outcome |-> "suppressed", value |-> id])
              ELSE IF is_duplicate(alert)
              THEN /\ alerts' = alerts @@ (id :> alert)
                   /\ create_call' = create_call @@
                         (id :> [pc |-> "returned", outcome |-> "duplicate", value |-> id])
              ELSE /\ alerts' = alerts @@ (id :> alert)
                   /\ create_call' = create_call @@
                         (id :> [pc |-> "inserting", outcome |-> "accepted", value |-> 0])
    /\ UNCHANGED <<health_manager, escalation_policies, suppression_rules, channel_up, db_failures, clock,
                   active_alerts, alert_queue,
                   worker, timer, alerts_table, notifications, sends, actions_run,
                   call_result, resolve_ok>>

\* create_alert arming the escalation timers itself, when it accepts the
\* alert, instead of leaving it to the worker.
create_alert_insert_arming_timers(id) ==
    /\ id \in Created
    /\ create_call[id].pc = "inserting"
    /\ active_alerts' = active_alerts \cup {id}
    /\ \E db_ok \in DbOutcomes(0) :
          IF db_ok
          THEN /\ alerts_table' = [alerts_table EXCEPT ![id] = row_of(alerts[id])]
               /\ alert_queue' = Append(alert_queue, id)
               /\ create_call' = [create_call EXCEPT ![id].pc = "returned", ![id].value = id]
               /\ timer' = [timer EXCEPT ![id] =
                     [l \in Levels |->
                         IF /\ has_policy(alerts[id].severity)
                            /\ l <= get_escalation_policy(alerts[id].severity).max_escalation_level
                            /\ has_threshold(get_escalation_policy(alerts[id].severity), l)
                         THEN [pc |-> "armed"]
                         ELSE timer[id][l]]]
               /\ UNCHANGED db_failures
          ELSE /\ create_call' = [create_call EXCEPT ![id].pc = "raised"]
               /\ db_failures' = db_failures + 1
               /\ UNCHANGED <<alerts_table, alert_queue, timer>>
    /\ UNCHANGED <<health_manager, escalation_policies, suppression_rules, channel_up,
                   clock, nextId, alerts, worker, notifications, sends, actions_run,
                   call_result, resolve_ok>>

\* Second part: self.active_alerts[alert_id] = alert; save_alert (which can
\* raise sqlite3.Error: nothing in create_alert catches it); alert_queue.put.
create_alert_insert(id) ==
    /\ id \in Created
    /\ create_call[id].pc = "inserting"
    /\ active_alerts' = active_alerts \cup {id}
    /\ \E db_ok \in DbOutcomes(0) :
          IF db_ok
          THEN /\ alerts_table' = [alerts_table EXCEPT ![id] = row_of(alerts[id])]
               /\ alert_queue' = Append(alert_queue, id)
               /\ create_call' = [create_call EXCEPT ![id].pc = "returned", ![id].value = id]
               /\ UNCHANGED db_failures
          ELSE /\ create_call' = [create_call EXCEPT ![id].pc = "raised"]
               /\ db_failures' = db_failures + 1
               /\ UNCHANGED <<alerts_table, alert_queue>>
    /\ UNCHANGED <<health_manager, escalation_policies, suppression_rules, channel_up, clock, nextId, alerts,
                   worker,
                   timer, notifications, sends, actions_run, call_result, resolve_ok>>

\* ------------------------------------------- acknowledge_alert / resolve_alert
Actors == {"ops"}
Notes == {None, "fixed"}
\* ids a caller can pass: ids returned by create_alert, or one never generated
CallableIds == Created \cup {UnknownId}


\* acknowledge_alert looking the id up among all alerts ever built instead of
\* the active index.
acknowledge_alert_any_alert(alert_id, acknowledged_by) ==
    /\ IF alert_id \notin Created
       THEN /\ call_result' = "false"
            /\ UNCHANGED <<alerts, alerts_table, db_failures>>
       ELSE LET updated == [alerts[alert_id] EXCEPT !.status = ACKNOWLEDGED,
                                                     !.acknowledged_by = acknowledged_by]
            IN  /\ alerts' = [alerts EXCEPT ![alert_id] = updated]
                /\ alerts_table' = [alerts_table EXCEPT ![alert_id] = row_of(updated)]
                /\ call_result' = "true"
                /\ UNCHANGED db_failures
    /\ UNCHANGED <<health_manager, escalation_policies, suppression_rules, channel_up, clock, nextId,
                   active_alerts, alert_queue, create_call, worker, timer, notifications,
                   sends, actions_run, resolve_ok>>

acknowledge_alert(alert_id, acknowledged_by) ==
    /\ IF alert_id \notin active_alerts
       THEN /\ call_result' = "false"
            /\ UNCHANGED <<alerts, alerts_table, db_failures>>
       ELSE LET updated == [alerts[alert_id] EXCEPT !.status = ACKNOWLEDGED,
                                                     !.acknowledged_by = acknowledged_by]
            IN  /\ alerts' = [alerts EXCEPT ![alert_id] = updated]
                /\ \E db_ok \in DbOutcomes(0) :
                      IF db_ok
                      THEN /\ alerts_table' = [alerts_table EXCEPT ![alert_id] = row_of(updated)]
                           /\ call_result' = "true"
                           /\ UNCHANGED db_failures
                      ELSE /\ UNCHANGED alerts_table
                           /\ db_failures' = db_failures + 1
                           /\ call_result' = "raised"
    /\ UNCHANGED <<health_manager, escalation_policies, suppression_rules, channel_up, clock, nextId,
                   active_alerts,
                   alert_queue, create_call, worker, timer, notifications, sends,
                   actions_run, resolve_ok>>

\* resolve_alert writing the time of resolution into alert.timestamp instead
\* of alert.resolved_at.
resolve_alert_restamping(alert_id, resolved_by, notes) ==
    /\ IF alert_id \notin active_alerts
       THEN /\ call_result' = "false"
            /\ UNCHANGED <<alerts, alerts_table, resolve_ok, db_failures>>
       ELSE LET a == alerts[alert_id]
                updated == [a EXCEPT !.status = RESOLVED,
                                     !.resolved_by = resolved_by,
                                     !.timestamp = clock,
                                     !.metadata = IF notes # None
                                                  THEN a.metadata \cup {"resolution_notes"}
                                                  ELSE a.metadata]
            IN  /\ alerts' = [alerts EXCEPT ![alert_id] = updated]
                /\ \E db_ok \in DbOutcomes(0) :
                      IF db_ok
                      THEN /\ alerts_table' = [alerts_table EXCEPT ![alert_id] = row_of(updated)]
                           /\ call_result' = "true"
                           /\ resolve_ok' = resolve_ok \cup {alert_id}
                           /\ UNCHANGED db_failures
                      ELSE /\ UNCHANGED <<alerts_table, resolve_ok>>
                           /\ db_failures' = db_failures + 1
                           /\ call_result' = "raised"
    /\ UNCHANGED <<health_manager, escalation_policies, suppression_rules, channel_up,
                   clock, nextId, active_alerts, alert_queue, create_call, worker, timer,
                   notifications, sends, actions_run>>

resolve_alert(alert_id, resolved_by, notes) ==
    /\ IF alert_id \notin active_alerts
       THEN /\ call_result' = "false"
            /\ UNCHANGED <<alerts, alerts_table, resolve_ok, db_failures>>
       ELSE LET a == alerts[alert_id]
                updated == [a EXCEPT !.status = RESOLVED,
                                     !.resolved_by = resolved_by,
                                     !.metadata = IF notes # None
                                                  THEN a.metadata \cup {"resolution_notes"}
                                                  ELSE a.metadata]
            IN  /\ alerts' = [alerts EXCEPT ![alert_id] = updated]
                /\ \E db_ok \in DbOutcomes(0) :
                      IF db_ok
                      THEN /\ alerts_table' = [alerts_table EXCEPT ![alert_id] = row_of(updated)]
                           /\ call_result' = "true"
                           /\ resolve_ok' = resolve_ok \cup {alert_id}
                           /\ UNCHANGED db_failures
                      ELSE /\ UNCHANGED <<alerts_table, resolve_ok>>
                           /\ db_failures' = db_failures + 1
                           /\ call_result' = "raised"
    /\ UNCHANGED <<health_manager, escalation_policies, suppression_rules, channel_up, clock, nextId,
                   active_alerts,
                   alert_queue, create_call, worker, timer, notifications, sends,
                   actions_run>>

\* ------------------------------------------------------ notification_worker
\* The head of the queue read without being removed, unless another worker
\* already holds it.
notification_worker_peek(w) ==
    /\ worker[w].pc = "idle"
    /\ alert_queue # <<>>
    /\ worker' = [worker EXCEPT ![w] = [pc |-> "process", alert |-> Head(alert_queue)]]
    /\ alert_queue' = IF \E v \in Workers : worker[v].alert = Head(alert_queue)
                      THEN Tail(alert_queue) ELSE alert_queue
    /\ UNCHANGED <<health_manager, escalation_policies, suppression_rules, channel_up, db_failures, clock,
                   nextId, alerts, active_alerts, create_call, timer, alerts_table,
                   notifications, sends, actions_run, call_result, resolve_ok>>

\* alert = self.alert_queue.get(timeout=30): one worker takes the head
notification_worker_get(w) ==
    /\ worker[w].pc = "idle"
    /\ alert_queue # <<>>
    /\ worker' = [worker EXCEPT ![w] = [pc |-> "process", alert |-> Head(alert_queue)]]
    /\ alert_queue' = Tail(alert_queue)
    /\ UNCHANGED <<health_manager, escalation_policies, suppression_rules, channel_up, db_failures, clock,
                   nextId, alerts, active_alerts, create_call, timer, alerts_table,
                   notifications, sends, actions_run, call_result, resolve_ok>>

send_record(id, channel, level, is_escalation, ok) ==
    [alert |-> id, channel |-> channel, level |-> level,
     is_escalation |-> is_escalation, ok |-> ok]

notification_record(id, channel, status) ==
    [alert |-> id, channel |-> channel, status |-> status]

\* The channels of a policy level that are configured in the manager, in order.
configured(channels) == SelectSeq(channels, LAMBDA c : c \in ConfiguredChannels)

\* The channel loop of send_initial_notifications over q, started with the
\* logs in st (sends, notifications, number of sqlite failures, and whether an
\* exception has left the loop); db is the outcome of each sqlite call the
\* loop may make, by position.
\*   try:    channel.send(alert); save_notification(.., "sent")
\*   except: save_notification(.., "failed", str(e))     (may raise again)
RECURSIVE initial_loop(_, _, _, _)

\* The loop with the try/except missing: a failing send leaves the loop.
RECURSIVE initial_loop_no_catch(_, _, _, _)
initial_loop_no_catch(id, q, db, st) ==
    IF q = <<>> \/ st.raised THEN st
    ELSE LET c == Head(q)
             send_ok == channel_up[c]
             sent == add_one(st.sends, send_record(id, c, 0, FALSE, send_ok))
         IN  IF send_ok
             THEN initial_loop_no_catch(id, Tail(q), db,
                     [st EXCEPT !.sends = sent,
                                !.notifications = add_one(@, notification_record(id, c, "sent"))])
             ELSE [st EXCEPT !.sends = sent, !.raised = TRUE]

initial_loop(id, q, db, st) ==
    IF q = <<>> \/ st.raised THEN st
    ELSE LET c == Head(q)
             send_ok == channel_up[c]
             sent == add_one(st.sends, send_record(id, c, 0, FALSE, send_ok))
             first_ok == db[2 * Len(q)]
             second_ok == db[2 * Len(q) - 1]
         IN  IF send_ok /\ first_ok
             THEN initial_loop(id, Tail(q), db,
                     [st EXCEPT !.sends = sent,
                                !.notifications = add_one(@, notification_record(id, c, "sent"))])
             ELSE LET failed_before == IF send_ok THEN 1 ELSE 0
                  IN  IF second_ok
                      THEN initial_loop(id, Tail(q), db,
                              [st EXCEPT !.sends = sent,
                                         !.failures = @ + failed_before,
                                         !.notifications =
                                             add_one(@, notification_record(id, c, "failed"))])
                      ELSE [st EXCEPT !.sends = sent,
                                      !.failures = @ + failed_before + 1,
                                      !.raised = TRUE]

\* The sqlite outcomes a loop over the channels q can meet: two call sites
\* per channel.
DbChoices(q) == [1 .. 2 * Len(q) -> BOOLEAN]

\* A default channel list used when no policy lists the severity.
initial_channels_with_default(id) ==
    IF has_policy(alerts[id].severity)
    THEN configured(channels_of(get_escalation_policy(alerts[id].severity), 0))
    ELSE <<EMAIL>>

\* The channels send_initial_notifications sends to.
initial_channels(id) ==
    IF has_policy(alerts[id].severity)
    THEN configured(channels_of(get_escalation_policy(alerts[id].severity), 0))
    ELSE <<>>

send_initial_notifications(id, db) ==
    initial_loop(id, initial_channels(id), db,
                 [sends |-> sends, notifications |-> notifications,
                  failures |-> 0, raised |-> FALSE])

\* A Timer for level 1 only, the later levels left to be chained.
schedule_escalation_first_level_only(id) ==
    [l \in Levels |->
        IF /\ has_policy(alerts[id].severity)
           /\ l = 1
           /\ has_threshold(get_escalation_policy(alerts[id].severity), l)
        THEN [pc |-> "armed"]
        ELSE timer[id][l]]

\* schedule_escalation: a threading.Timer per level 1..max_escalation_level
\* that has a threshold
schedule_escalation(id) ==
    [l \in Levels |->
        IF /\ has_policy(alerts[id].severity)
           /\ l <= get_escalation_policy(alerts[id].severity).max_escalation_level
           /\ has_threshold(get_escalation_policy(alerts[id].severity), l)
        THEN [pc |-> "armed"]
        ELSE timer[id][l]]

\* process_alert arming the timers only when every level-0 send succeeded.
process_alert_no_timers_after_failed_send(w) ==
    /\ worker[w].pc = "process"
    /\ LET id == worker[w].alert
       IN  \E db \in DbChoices(initial_channels(id)) :
              LET out == send_initial_notifications(id, db)
              IN  /\ db_failures + out.failures <= MaxDbFailures
                  /\ sends' = out.sends
                  /\ notifications' = out.notifications
                  /\ db_failures' = db_failures + out.failures
                  /\ timer' = IF out.raised \/ \E r \in BagToSet(out.sends) : ~r.ok
                              THEN timer
                              ELSE [timer EXCEPT ![id] = schedule_escalation(id)]
    /\ worker' = [worker EXCEPT ![w] = IdleWorker]
    /\ UNCHANGED <<health_manager, escalation_policies, suppression_rules, channel_up,
                   clock, nextId, alerts, active_alerts, alert_queue, create_call,
                   alerts_table, actions_run, call_result, resolve_ok>>

\* process_alert: send_initial_notifications, then schedule_escalation; an
\* exception of the first is caught and logged, and the scheduling is skipped.
process_alert(w) ==
    /\ worker[w].pc = "process"
    /\ LET id == worker[w].alert
       IN  \E db \in DbChoices(initial_channels(id)) :
              LET out == send_initial_notifications(id, db)
              IN  /\ db_failures + out.failures <= MaxDbFailures
                  /\ sends' = out.sends
                  /\ notifications' = out.notifications
                  /\ db_failures' = db_failures + out.failures
                  /\ timer' = IF out.raised THEN timer
                              ELSE [timer EXCEPT ![id] = schedule_escalation(id)]
    /\ worker' = [worker EXCEPT ![w] = IdleWorker]
    /\ UNCHANGED <<health_manager, escalation_policies, suppression_rules, channel_up, clock, nextId,
                   alerts, active_alerts, alert_queue, create_call, alerts_table,
                   actions_run, call_result, resolve_ok>>

\* ---------------------------------------------------------- escalate_alert
\* The instant the Timer armed by schedule_escalation runs out.
escalation_time(id, level) ==
    alerts[id].timestamp + threshold_of(get_escalation_policy(alerts[id].severity), level)

set_timer(id, level, pc) ==
    timer' = [timer EXCEPT ![id][level] = [pc |-> pc]]

\* The early return taken for an acknowledged alert as well.
escalate_alert_check_halts_on_ack(id, level) ==
    /\ timer[id][level].pc = "armed"
    /\ clock >= escalation_time(id, level)
    /\ IF alerts[id].status \in {RESOLVED, CLOSED, ACKNOWLEDGED}
       THEN set_timer(id, level, "done")
       ELSE IF \/ ~has_policy(alerts[id].severity)
               \/ level \notin DOMAIN get_escalation_policy(alerts[id].severity).notification_channels
       THEN set_timer(id, level, "done")
       ELSE set_timer(id, level, "checked")
    /\ UNCHANGED <<health_manager, escalation_policies, suppression_rules, channel_up, db_failures, clock,
                   nextId, alerts, active_alerts, alert_queue, create_call, worker,
                   alerts_table, notifications, sends, actions_run, call_result, resolve_ok>>

\* The Timer fires and escalate_alert makes its two early-return checks.
escalate_alert_check(id, level) ==
    /\ timer[id][level].pc = "armed"
    /\ clock >= escalation_time(id, level)
    /\ IF alerts[id].status \in {RESOLVED, CLOSED}
       THEN set_timer(id, level, "done")
       ELSE IF \/ ~has_policy(alerts[id].severity)
               \/ level \notin DOMAIN get_escalation_policy(alerts[id].severity).notification_channels
       THEN set_timer(id, level, "done")
       ELSE set_timer(id, level, "checked")
    /\ UNCHANGED <<health_manager, escalation_policies, suppression_rules, channel_up, db_failures, clock,
                   nextId, alerts, active_alerts, alert_queue, create_call, worker,
                   alerts_table, notifications, sends, actions_run, call_result, resolve_ok>>

\* alert.escalation_level = level
escalate_alert_set_level(id, level) ==
    /\ timer[id][level].pc = "checked"
    /\ alerts' = [alerts EXCEPT ![id].escalation_level = level]
    /\ set_timer(id, level, "level_set")
    /\ UNCHANGED <<health_manager, escalation_policies, suppression_rules, channel_up, db_failures, clock,
                   nextId, active_alerts, alert_queue, create_call, worker, alerts_table,
                   notifications, sends, actions_run, call_result, resolve_ok>>

\* execute_escalation_action: every action of the source only writes a log
\* line (auto_resolve_alert included); the execution itself is recorded.
action_record(id, action, by) == [alert |-> id, action |-> action, by |-> by]

execute_escalation_action(bag, id, action, by) ==
    add_one(bag, action_record(id, action, by))

\* The channel loop of escalate_alert:
\*   try:    channel.send(alert, is_escalation=True); save_notification(.., "escalated")
\*   except: log only
RECURSIVE escalation_loop(_, _, _, _, _)

\* The loop left after the first channel of the list.
escalation_loop_first_channel(id, level, q, db, st) ==
    IF q = <<>> THEN st
    ELSE LET c == Head(q)
             send_ok == channel_up[c]
             sent == add_one(st.sends, send_record(id, c, level, TRUE, send_ok))
         IN  IF send_ok /\ db[Len(q)]
             THEN [st EXCEPT !.sends = sent,
                             !.notifications =
                                 add_one(@, notification_record(id, c, "escalated"))]
             ELSE [st EXCEPT !.sends = sent,
                             !.failures = @ + (IF send_ok THEN 1 ELSE 0)]

escalation_loop(id, level, q, db, st) ==
    IF q = <<>> THEN st
    ELSE LET c == Head(q)
             send_ok == channel_up[c]
             sent == add_one(st.sends, send_record(id, c, level, TRUE, send_ok))
             save_ok == db[Len(q)]
         IN  IF send_ok /\ save_ok
             THEN escalation_loop(id, level, Tail(q), db,
                     [st EXCEPT !.sends = sent,
                                !.notifications =
                                    add_one(@, notification_record(id, c, "escalated"))])
             ELSE escalation_loop(id, level, Tail(q), db,
                     [st EXCEPT !.sends = sent,
                                !.failures = @ + (IF send_ok THEN 1 ELSE 0)])

\* Rest of escalate_alert: alert.status = ESCALATED, the fan-out to the
\* level's channels, the escalation action of the level.
escalate_alert_notify(id, level) ==
    /\ timer[id][level].pc = "level_set"
    /\ alerts' = [alerts EXCEPT ![id].status = ESCALATED]
    /\ LET policy == get_escalation_policy(alerts[id].severity)
           channels == configured(policy.notification_channels[level])
       IN  /\ \E db \in DbChoices(channels) :
                 LET out == escalation_loop(id, level, channels, db,
                               [sends |-> sends, notifications |-> notifications,
                                failures |-> 0, raised |-> FALSE])
                 IN  /\ db_failures + out.failures <= MaxDbFailures
                     /\ sends' = out.sends
                     /\ notifications' = out.notifications
                     /\ db_failures' = db_failures + out.failures
           /\ actions_run' =
                 IF level \in DOMAIN policy.escalation_rules
                 THEN execute_escalation_action(actions_run, id,
                                                policy.escalation_rules[level], "timer")
                 ELSE actions_run
    /\ set_timer(id, level, "done")
    /\ UNCHANGED <<health_manager, escalation_policies, suppression_rules, channel_up, clock, nextId,
                   active_alerts, alert_queue, create_call, worker, alerts_table,
                   call_result, resolve_ok>>

\* ------------------------------------------------------ process_escalations
\* max(policy.severity_levels, key=lambda s: policy.time_thresholds.get(s, 0)):
\* the first severity, in list order, with the largest value
severity_threshold(policy, s) ==
    IF \E e \in policy.time_thresholds : e.key = SeverityKey(s)
    THEN (CHOOSE e \in policy.time_thresholds : e.key = SeverityKey(s)).secs
    ELSE 0

max_escalation_time(policy) ==
    LET levels == policy.severity_levels
        best == CHOOSE i \in DOMAIN levels :
                   /\ \A j \in DOMAIN levels :
                         severity_threshold(policy, levels[j]) <= severity_threshold(policy, levels[i])
                   /\ \A j \in DOMAIN levels :
                         j < i => severity_threshold(policy, levels[j]) < severity_threshold(policy, levels[i])
    IN  severity_threshold(policy, levels[best])

\* The alerts for which one sweep executes the policy's last action.
sweep_due(id) ==
    /\ alerts[id].status \notin {RESOLVED, CLOSED}
    /\ has_policy(alerts[id].severity)
    /\ LET policy == get_escalation_policy(alerts[id].severity)
       IN  /\ max_escalation_time(policy) # 0
           /\ clock - alerts[id].timestamp > max_escalation_time(policy)
           /\ policy.max_escalation_level \in DOMAIN policy.escalation_rules

sweep_action(id) ==
    LET policy == get_escalation_policy(alerts[id].severity)
    IN  action_record(id, policy.escalation_rules[policy.max_escalation_level], "sweep")

process_escalations ==
    /\ \A id \in active_alerts :
          sweep_due(id) => CopiesIn(sweep_action(id), actions_run) < MaxSweepRuns
    /\ actions_run' = actions_run (+)
          SetToBag({sweep_action(id) : id \in {x \in active_alerts : sweep_due(x)}})
    /\ UNCHANGED <<health_manager, escalation_policies, suppression_rules, channel_up, db_failures, clock,
                   nextId, alerts,
                   active_alerts, alert_queue, create_call, worker, timer, alerts_table,
                   notifications, sends, call_result, resolve_ok>>

\* --------------------------------------------------------------------- time
Tick ==
    /\ clock' = clock + TickSeconds
    /\ UNCHANGED <<health_manager, escalation_policies, suppression_rules, channel_up, db_failures, nextId,
                   alerts, active_alerts,
                   alert_queue, create_call, worker, timer, alerts_table, notifications,
                   sends, actions_run, call_result, resolve_ok>>

\* Time passes until the time of day t.
TickTo(t) ==
    /\ clock < t
    /\ clock' = t
    /\ UNCHANGED <<health_manager, escalation_policies, suppression_rules, channel_up, db_failures, nextId,
                   alerts, active_alerts,
                   alert_queue, create_call, worker, timer, alerts_table, notifications,
                   sends, actions_run, call_result, resolve_ok>>

\* --------------------------------------------------------------------- Next
Next ==
    \/ \E severity \in SingleSeverities, dedup_key \in DedupKeys :
          nextId <= MaxAlerts /\ create_alert_check(severity, dedup_key)
    \/ \E id \in Created : create_alert_insert(id)
    \/ \E id \in CallableIds, by \in Actors : acknowledge_alert(id, by)
    \/ \E id \in CallableIds, by \in Actors, notes \in Notes : resolve_alert(id, by, notes)
    \/ \E w \in Workers : notification_worker_get(w)
    \/ \E w \in Workers : process_alert(w)
    \/ \E id \in Created, level \in Levels : escalate_alert_check(id, level)
    \/ \E id \in Created, level \in Levels : escalate_alert_set_level(id, level)
    \/ \E id \in Created, level \in Levels : escalate_alert_notify(id, level)
    \/ process_escalations
    \/ clock + TickSeconds <= MaxTime /\ Tick

Spec == Init /\ [][Next]_vars

NextPair ==
    \/ \E severity \in Severities, dedup_key \in DedupKeys :
          nextId <= MaxPairAlerts /\ create_alert_check(severity, dedup_key)
    \/ \E id \in Created : create_alert_insert(id)
    \/ \E id \in CallableIds, by \in Actors : acknowledge_alert(id, by)
    \/ \E id \in CallableIds, by \in Actors : resolve_alert(id, by, None)
    \/ \E w \in Workers : notification_worker_get(w)
    \/ \E w \in Workers : process_alert(w)
    \/ \E id \in Created, level \in Levels : escalate_alert_check(id, level)
    \/ \E id \in Created, level \in Levels : escalate_alert_set_level(id, level)
    \/ \E id \in Created, level \in Levels : escalate_alert_notify(id, level)
    \/ process_escalations
    \/ clock + TickSeconds <= MaxPairTime /\ Tick

SpecPair == InitPair /\ [][NextPair]_vars

\* One alert of any severity, created at one of StartTimes under one of
\* PolicyConfigs and RuleConfigs; every channel up, no database failure left
\* to inject; the alert is processed, acknowledged and resolved.
InitConfig ==
    /\ \E policies \in PolicyConfigs, rules \in RuleConfigs :
          Constructed([escalation_policies |-> policies, suppression_rules |-> rules])
    /\ channel_up = [c \in ConfiguredChannels |-> TRUE]
    /\ db_failures = MaxDbFailures
    /\ health_manager = NoHealthManager

NextConfig ==
    \/ \E severity \in AllSeverities :
          nextId <= MaxConfigAlerts /\ create_alert_check(severity, None)
    \/ \E id \in Created : create_alert_insert(id)
    \/ \E id \in CallableIds, by \in Actors : acknowledge_alert(id, by)
    \/ \E id \in CallableIds, by \in Actors : resolve_alert(id, by, None)
    \/ \E w \in Workers : notification_worker_get(w)
    \/ \E w \in Workers : process_alert(w)
    \/ \E t \in StartTimes : TickTo(t)
    \/ process_escalations

SpecConfig == InitConfig /\ [][NextConfig]_vars

\* The health-check system's AlertManager alone: each of its handler
\* configurations, MaxHealthAlerts send_alert calls.
InitHealth ==
    /\ \E c \in PairConfigs : Constructed(c)
    /\ channel_up = [c \in ConfiguredChannels |-> TRUE]
    /\ db_failures = MaxDbFailures
    /\ health_manager \in HealthManagers

NextHealth ==
    \E severity \in HealthSeverities, coin \in BOOLEAN :
        Len(health_manager.calls) < MaxHealthAlerts /\ send_alert(severity, coin)

SpecHealth == InitHealth /\ [][NextHealth]_vars

\* Two alerts and the notification workers under weak fairness (the worker
\* threads keep running: each loops on alert_queue.get and process_alert),
\* with failing channels and a failing database; no timer callback.
InitLive ==
    /\ \E c \in Configs : Constructed(c)
    /\ channel_up \in [ConfiguredChannels -> BOOLEAN]
    /\ db_failures = 0
    /\ health_manager = NoHealthManager

NextLive ==
    \/ \E severity \in {INFO, HIGH}, dedup_key \in DedupKeys :
          nextId <= MaxLiveAlerts /\ create_alert_check(severity, dedup_key)
    \/ \E id \in Created : create_alert_insert(id)
    \/ \E w \in Workers : notification_worker_get(w)
    \/ \E w \in Workers : process_alert(w)

SpecLive ==
    /\ InitLive
    /\ [][NextLive]_vars
    /\ \A w \in Workers : WF_vars(notification_worker_get(w))
    /\ \A w \in Workers : WF_vars(process_alert(w))

TypeOK ==
    /\ clock \in Nat
    /\ nextId \in 1 .. UnknownId
    /\ active_alerts \subseteq Created
    /\ \A id \in Created : alerts[id].status \in AlertStatus
\* ------------------------------------------------------------ observations
sends_of(id) == {r \in BagToSet(sends) : r.alert = id}
notifications_of(id) == {r \in BagToSet(notifications) : r.alert = id}
queued(id) == \E i \in DOMAIN alert_queue : alert_queue[i] = id
held_by_worker(id) == \E w \in Workers : worker[w].pc # "idle" /\ worker[w].alert = id
is_active(id) == id \in active_alerts /\ alerts[id].status \in ActiveStatuses

\* --------------------------------------------------------------------- C1
\* C1: a create_alert call whose dedup key is held by an alert of the active
\* index in any of the statuses new, acknowledged, in_progress, escalated is
\* not accepted, and an alert that was not accepted is never in the active
\* index, never persisted, never queued and never notified.
C1_DuplicateStep ==
    (/\ nextId' = nextId + 1
     /\ alerts'[nextId].dedup_key # None
     /\ \E a \in active_alerts :
           /\ alerts[a].dedup_key = alerts'[nextId].dedup_key
           /\ alerts[a].status \in ActiveStatuses)
    => create_call'[nextId].outcome # "accepted"

C1_DuplicateIgnored ==
    \A id \in Created :
        create_call[id].outcome = "duplicate" =>
            /\ id \notin active_alerts
            /\ ~alerts_table[id].present
            /\ ~queued(id) /\ ~held_by_worker(id)
            /\ sends_of(id) = {}

C1_DedupEveryActiveStatus == [][C1_DuplicateStep]_vars /\ []C1_DuplicateIgnored

\* --------------------------------------------------------------------- C2
\* C2: no step lowers the escalation_level of an alert.
C2_LevelNeverDecreases ==
    [][\A id \in Created : alerts'[id].escalation_level >= alerts[id].escalation_level]_vars

\* --------------------------------------------------------------------- C3
\* C3: in a step that starts with the alert closed, or resolved by a
\* resolve_alert call that has returned True, no channel send is made for
\* that alert.
C3_NoSendAfterTerminal ==
    [][\A id \in Created :
          (/\ alerts[id].status \in TerminalStatuses
           /\ alerts[id].status = RESOLVED => id \in resolve_ok) =>
              \A r \in BagToSet(sends') :
                  r.alert = id => CopiesIn(r, sends') = CopiesIn(r, sends)]_vars

\* --------------------------------------------------------------------- C4
\* C4: once an alert is resolved or closed, no step changes its status or
\* its escalation_level.
C4_TerminalFrozen ==
    [][\A id \in Created :
          alerts[id].status \in TerminalStatuses =>
              /\ alerts'[id].status = alerts[id].status
              /\ alerts'[id].escalation_level = alerts[id].escalation_level]_vars

\* --------------------------------------------------------------------- C5
\* C5: once resolve_alert has returned True for an alert and the alert is
\* resolved, no step of an escalation callback of that alert changes the
\* alert (its status stays resolved, its level stays as it was).
C5_NoLostUpdate ==
    [][\A id \in Created :
          (/\ id \in resolve_ok
           /\ alerts[id].status = RESOLVED
           /\ timer'[id] # timer[id])
          => alerts'[id] = alerts[id]]_vars

\* --------------------------------------------------------------------- C6
\* C6: no two alerts of the active index with an active status share a
\* non-null dedup key.
C6_OneActivePerDedupKey ==
    \A a \in active_alerts, b \in active_alerts :
        (/\ a # b
         /\ alerts[a].dedup_key # None
         /\ alerts[a].dedup_key = alerts[b].dedup_key
         /\ alerts[a].status \in ActiveStatuses)
        => alerts[b].status \notin ActiveStatuses
\* --------------------------------------------------------------------- C7
\* C7: an alert that matches a suppression rule is never in the active index,
\* never persisted, never queued or held by a worker, never sent on a
\* channel, has no notification record and no escalation timer.
C7_SuppressedNeverProcessed ==
    \A id \in Created :
        is_suppressed(alerts[id]) =>
            /\ id \notin active_alerts
            /\ ~alerts_table[id].present
            /\ ~queued(id) /\ ~held_by_worker(id)
            /\ sends_of(id) = {}
            /\ notifications_of(id) = {}
            /\ \A l \in Levels : timer[id][l].pc = "none"

\* A suppressed alert, next to an accepted one that has been notified and
\* escalated, and a caller that has used an id outside the active index.
C7_Witness ==
    \E id \in Created, other \in Created :
        /\ is_suppressed(alerts[id])
        /\ alerts[id].status = SUPPRESSED
        /\ alerts[other].status = ESCALATED
        /\ sends_of(other) # {}
        /\ call_result = "false"

\* --------------------------------------------------------------------- C8
\* The configured channels of a level of the alert's policy, in list order.
level_channels(id, level) ==
    configured(channels_of(get_escalation_policy(alerts[id].severity), level))

success_status(level) == IF level = 0 THEN "sent" ELSE "escalated"

\* C8: while the database has not failed, a failed send on one channel of a
\* fan-out (level 0 or an escalation level) comes with a send on every other
\* configured channel of that level, and every such channel whose send
\* succeeds has its successful notification record.
C8_ChannelFailureIsolated ==
    db_failures = 0 =>
        \A r \in BagToSet(sends) :
            ~r.ok =>
                \A y \in Range(level_channels(r.alert, r.level)) \ {r.channel} :
                    /\ \E t \in sends_of(r.alert) : t.level = r.level /\ t.channel = y
                    /\ channel_up[y] =>
                          BagIn(notification_record(r.alert, y, success_status(r.level)),
                                notifications)

\* index of channel c in the sequence q
position(q, c) == CHOOSE i \in DOMAIN q : q[i] = c

\* One alert with a level-0 fan-out in which the failing channel comes first
\* and the working one after it, and an escalation fan-out in which the
\* failing channel comes last; the working channel has both records.
C8_Witness ==
    \E id \in Created, x \in ConfiguredChannels, y \in ConfiguredChannels, level \in Levels :
        /\ db_failures = 0
        /\ has_policy(alerts[id].severity)
        /\ ~channel_up[x] /\ channel_up[y]
        /\ {x, y} \subseteq Range(level_channels(id, 0))
        /\ {x, y} \subseteq Range(level_channels(id, level))
        /\ position(level_channels(id, 0), x) < position(level_channels(id, 0), y)
        /\ position(level_channels(id, level), y) < position(level_channels(id, level), x)
        /\ BagIn(send_record(id, x, 0, FALSE, FALSE), sends)
        /\ BagIn(send_record(id, x, level, TRUE, FALSE), sends)
        /\ BagIn(notification_record(id, y, "sent"), notifications)
        /\ BagIn(notification_record(id, y, "escalated"), notifications)

\* --------------------------------------------------------------------- C9
\* C9: a call of acknowledge_alert or resolve_alert with an id that is not in
\* the active index returns False, changes no alert and makes no sqlite call.
C9_UnknownIdStep ==
    \A id \in CallableIds, by \in Actors :
        (/\ id \notin active_alerts
         /\ \/ acknowledge_alert(id, by)
            \/ \E notes \in Notes : resolve_alert(id, by, notes))
        => /\ call_result' = "false"
           /\ alerts' = alerts
           /\ alerts_table' = alerts_table
           /\ notifications' = notifications
           /\ db_failures' = db_failures
           /\ resolve_ok' = resolve_ok

C9_UnknownIdReturnsFalse == [][C9_UnknownIdStep]_vars

\* A call has returned False while a deduplicated alert exists outside the
\* active index, next to the active alert that holds its key.
C9_Witness ==
    /\ call_result = "false"
    /\ \E a \in active_alerts, b \in Created :
          /\ create_call[b].outcome = "duplicate" /\ b \notin active_alerts
          /\ alerts[a].dedup_key = alerts[b].dedup_key

\* -------------------------------------------------------------------- C10
\* C10: no create_alert call raises; every call that has returned has
\* returned the id generated for it, whatever its outcome, and no two calls
\* have returned the same id.
C10_CreateAlwaysReturnsId ==
    /\ \A id \in Created : create_call[id].pc # "raised"
    /\ \A id \in Created : create_call[id].pc = "returned" => create_call[id].value = id
    /\ \A a \in Created, b \in Created :
          (a # b /\ create_call[a].pc = "returned" /\ create_call[b].pc = "returned")
          => create_call[a].value # create_call[b].value

\* -------------------------------------------------------------------- C11
\* The sends of one escalation fan-out: sends' has one more escalation send
\* than sends on every configured channel of the level.
fan_out_made(id, level) ==
    \A c \in Range(level_channels(id, level)) :
        CopiesIn(send_record(id, c, level, TRUE, channel_up[c]), sends') =
            CopiesIn(send_record(id, c, level, TRUE, channel_up[c]), sends) + 1

\* C11: the callback of a level's timer, fired on an acknowledged alert, does
\* not return early: it goes on to set escalation_level to its level, and
\* its last part sets the status to escalated and sends on every configured
\* channel of the level.  A callback returns early only for a resolved or
\* closed alert (or a level the policy lists no channels for).
C11_AckStep ==
    \A id \in Created, level \in Levels :
        /\ (timer[id][level].pc = "armed" /\ timer'[id][level].pc # "armed"
            /\ alerts[id].status = ACKNOWLEDGED
            /\ level \in DOMAIN get_escalation_policy(alerts[id].severity).notification_channels)
           => timer'[id][level].pc = "checked"
        /\ (timer[id][level].pc = "armed" /\ timer'[id][level].pc = "done")
           => \/ alerts[id].status \in {RESOLVED, CLOSED}
              \/ level \notin DOMAIN get_escalation_policy(alerts[id].severity).notification_channels
        /\ (timer[id][level].pc = "checked" /\ timer'[id][level].pc # "checked")
           => alerts'[id].escalation_level = level
        /\ (timer[id][level].pc = "level_set" /\ timer'[id][level].pc # "level_set")
           => /\ alerts'[id].status = ESCALATED
              /\ fan_out_made(id, level)

C11_AckDoesNotHaltEscalation == [][C11_AckStep]_vars

\* An alert whose last saved row is the acknowledged one (acknowledge_alert
\* saves, escalate_alert does not) and which a callback that ran after the
\* acknowledgement has escalated and notified.
C11_Witness ==
    \E id \in Created, level \in Levels :
        /\ alerts[id].acknowledged_by # None
        /\ alerts_table[id].status = ACKNOWLEDGED
        /\ alerts_table[id].escalation_level = 0
        /\ alerts[id].status = ESCALATED
        /\ alerts[id].escalation_level = level
        /\ timer[id][level].pc = "done"
        /\ \E r \in sends_of(id) : r.is_escalation /\ r.level = level

\* -------------------------------------------------------------------- C12
\* The status changes the state machine allows, as (from, to) pairs.
AllowedTransitions ==
    ({STATUS_NEW} \X {SUPPRESSED, ACKNOWLEDGED, ESCALATED, RESOLVED})
    \cup ({ACKNOWLEDGED} \X {ESCALATED, RESOLVED})
    \cup ({ESCALATED} \X {ACKNOWLEDGED, RESOLVED})

\* C12: every step that changes an alert's status takes it along an allowed
\* transition (none leaves resolved, suppressed or closed), and a step that
\* keeps an alert escalated while changing its level raises the level.
C12_StatusStateMachine ==
    [][\A id \in Created :
          /\ alerts'[id].status # alerts[id].status
             => <<alerts[id].status, alerts'[id].status>> \in AllowedTransitions
          /\ (/\ alerts[id].status = ESCALATED
              /\ alerts'[id].status = ESCALATED
              /\ alerts'[id].escalation_level # alerts[id].escalation_level)
             => alerts'[id].escalation_level > alerts[id].escalation_level]_vars

\* -------------------------------------------------------------------- C13
\* The delay the alert's policy gives for a level, as a set: empty when the
\* policy has no entry for the level.
level_delays(id, level) ==
    {e.secs : e \in {x \in get_escalation_policy(alerts[id].severity).time_thresholds :
                        x.key.kind = "level" /\ x.key.lvl = level}}

must_arm(id, level) ==
    /\ has_policy(alerts[id].severity)
    /\ level <= get_escalation_policy(alerts[id].severity).max_escalation_level
    /\ level_delays(id, level) # {}

\* C13, steps: when a worker finishes processing an accepted alert and no
\* sqlite call failed on the way, exactly the levels 1..max_escalation_level
\* with a threshold have an armed timer; and a timer's callback never starts
\* before creation timestamp + the level's threshold.
C13_Step ==
    /\ \A w \in Workers :
          (worker[w].pc = "process" /\ worker'[w].pc = "idle" /\ db_failures' = db_failures)
          => \A level \in Levels :
                timer'[worker[w].alert][level].pc =
                    IF must_arm(worker[w].alert, level) THEN "armed" ELSE "none"
    /\ \A id \in Created, level \in Levels :
          (timer[id][level].pc = "armed" /\ timer'[id][level].pc # "armed")
          => \A d \in level_delays(id, level) : clock >= alerts[id].timestamp + d

\* C13, states: an armed timer whose time has come can run its callback
\* whatever the other levels' timers have done.
C13_Independent ==
    \A id \in Created, level \in Levels :
        (/\ timer[id][level].pc = "armed"
         /\ \A d \in level_delays(id, level) : clock >= alerts[id].timestamp + d)
        => ENABLED escalate_alert_check(id, level)

C14_Step ==
    \A id \in Created, level \in Levels :
        /\ (timer[id][level].pc = "checked" /\ timer'[id][level].pc # "checked")
           => alerts'[id].escalation_level = level
        /\ (timer[id][level].pc = "level_set" /\ timer'[id][level].pc # "level_set")
           => /\ alerts'[id].status = ESCALATED
              /\ alerts'[id].escalation_level = level
              /\ fan_out_made(id, level)
              /\ \A r \in BagToSet(sends') :
                    CopiesIn(r, sends') # CopiesIn(r, sends)
                    => /\ r.alert = id /\ r.level = level /\ r.is_escalation
                       /\ r.channel \in Range(level_channels(id, level))

\* C14, Scenario 2 (level 0 = [email], level 1 = [slack, email], threshold
\* 300 s): once the level-1 callback has run to its end, the alert has had
\* exactly one email send at creation and one slack and one email send at
\* level 1, none of them before 300 s after creation.
C14_Scenario2 ==
    \A id \in Created :
        (/\ has_policy(alerts[id].severity)
         /\ get_escalation_policy(alerts[id].severity) = single_level_policy
         /\ BagIn(action_record(id, NOTIFY_NEXT_LEVEL, "timer"), actions_run))
        => /\ sends_of(id) = {send_record(id, EMAIL, 0, FALSE, TRUE),
                              send_record(id, SLACK, 1, TRUE, TRUE),
                              send_record(id, EMAIL, 1, TRUE, TRUE)}
           /\ \A r \in sends_of(id) : CopiesIn(r, sends) = 1
           /\ clock >= alerts[id].timestamp + 300

declared_clauses_match(rule, alert) ==
    /\ (rule.has_time_based /\ rule.time_based) =>
          /\ rule.start_time <= time_of_day(alert.timestamp)
          /\ time_of_day(alert.timestamp) <= rule.end_time
    /\ rule.has_categories => alert.category \in rule.categories
    /\ rule.has_sources => alert.source \in rule.sources
    /\ rule.has_severities => alert.severity \in rule.severities

\* C15: create_alert suppresses an alert exactly when some rule of the table
\* has all the clauses it lists satisfied (rules OR'd, clauses AND'ed, the
\* window applied only to a rule that declares time_based).
C15_SuppressedIffSomeRuleMatches ==
    \A id \in Created :
        (create_call[id].outcome = "suppressed" /\ alerts[id].status = SUPPRESSED)
        <=> \E i \in DOMAIN suppression_rules :
               declared_clauses_match(suppression_rules[i], alerts[id])

\* -------------------------------------------------------------------- C16
\* C16, steps: a create_alert call is not treated as a duplicate when its
\* dedup key is null, or when every alert that holds the key is resolved or
\* closed.
C16_Step ==
    (/\ nextId' = nextId + 1
     /\ \/ alerts'[nextId].dedup_key = None
        \/ \A a \in Created :
              alerts[a].dedup_key = alerts'[nextId].dedup_key
              => alerts[a].status \in TerminalStatuses)
    => create_call'[nextId].outcome # "duplicate"

\* C16, states: no alert with a null dedup key has been deduplicated.
C16_NullKeyNeverDuplicate ==
    \A id \in Created : create_call[id].outcome = "duplicate" => alerts[id].dedup_key # None

C16_NoFalseDuplicate == [][C16_Step]_vars /\ []C16_NullKeyNeverDuplicate

\* A was resolved by a resolve_alert call that returned True; B, created
\* afterwards with A's dedup key, was accepted, is in the active index and has
\* been notified.
C16_Witness ==
    \E a \in Created, b \in Created :
        /\ a < b
        /\ alerts[a].dedup_key # None
        /\ alerts[a].dedup_key = alerts[b].dedup_key
        /\ a \in resolve_ok /\ alerts[a].status = RESOLVED
        /\ alerts[b].timestamp > alerts[a].timestamp
        /\ create_call[b].outcome = "accepted"
        /\ b \in active_alerts
        /\ sends_of(b) # {}

\* -------------------------------------------------------------------- C17
\* The number of level-0 sends made for an alert on a channel.
initial_sends(id, c) ==
    CopiesIn(send_record(id, c, 0, FALSE, TRUE), sends)
    + CopiesIn(send_record(id, c, 0, FALSE, FALSE), sends)

\* create_alert has returned for the alert and a worker has taken it from
\* the queue and finished process_alert.
processed(id) ==
    /\ create_call[id].pc = "returned"
    /\ create_call[id].outcome = "accepted"
    /\ ~queued(id) /\ ~held_by_worker(id)

\* C17: whatever the workers do, no alert has more than one level-0 send on
\* any channel; an alert that was not accepted has none; and an accepted
\* alert whose processing is over has exactly one on every configured level-0
\* channel of its policy.
C17_InitialFanOutOnce ==
    \A id \in Created :
        /\ \A c \in ConfiguredChannels : initial_sends(id, c) <= 1
        /\ create_call[id].outcome # "accepted" =>
              \A c \in ConfiguredChannels : initial_sends(id, c) = 0
        /\ processed(id) =>
              \A c \in Range(initial_channels(id)) : initial_sends(id, c) = 1

\* Scenario 1: A accepted and processed, B created with A's dedup key and
\* ignored, both workers back to waiting on the queue: one level-0 send for A
\* on each of its channels, none for B.
C17_Witness ==
    \E a \in Created, b \in Created :
        /\ processed(a)
        /\ initial_channels(a) # <<>>
        /\ \A c \in Range(initial_channels(a)) : initial_sends(a, c) = 1
        /\ alerts[b].dedup_key = alerts[a].dedup_key
        /\ create_call[b].outcome = "duplicate"
        /\ \A w \in Workers : worker[w].pc = "idle"
        /\ sends_of(b) = {}

\* -------------------------------------------------------------------- C18
\* The positions, in declaration order, of the policies that list a severity.
listing(severity) ==
    {i \in DOMAIN escalation_policies :
        \E k \in DOMAIN escalation_policies[i].severity_levels :
            escalation_policies[i].severity_levels[k] = severity}

\* C18: for every severity the lookup finds a policy exactly when some policy
\* lists the severity, and the policy found is the one declared before every
\* other policy that lists it: 'standard' for CRITICAL under the built-in
\* table.  The level-0 sends of a processed alert are those of that policy.
C18_FirstDeclaredPolicy ==
    /\ \A severity \in AllSeverities :
          /\ has_policy(severity) <=> listing(severity) # {}
          /\ \A i \in listing(severity) :
                (\A j \in listing(severity) : i <= j)
                => get_escalation_policy(severity) = escalation_policies[i]
    /\ escalation_policies = BuiltinPolicies =>
          get_escalation_policy(CRITICAL) = standard_policy
    /\ \A id \in Created :
          processed(id) =>
             \A i \in listing(alerts[id].severity) :
                (\A j \in listing(alerts[id].severity) : i <= j)
                => {r.channel : r \in sends_of(id)} =
                      Range(configured(channels_of(escalation_policies[i], 0)))

\* A CRITICAL alert processed under the built-in table, where both policies
\* list CRITICAL: its level-0 send went to email, the level-0 channel of
\* 'standard', the first declared.
C18_Witness ==
    \E id \in Created :
        /\ escalation_policies = BuiltinPolicies
        /\ alerts[id].severity = CRITICAL
        /\ listing(CRITICAL) = {1, 2}
        /\ processed(id)
        /\ sends_of(id) = {send_record(id, EMAIL, 0, FALSE, TRUE)}

\* -------------------------------------------------------------------- C19
no_policy_alert(id) ==
    /\ create_call[id].outcome = "accepted"
    /\ listing(alerts[id].severity) = {}

\* C19, states: an accepted alert whose severity no policy lists has no send,
\* no notification record and no timer, its create_alert call has not
\* raised, and once that call has returned the alert is in the active index
\* and persisted.
C19_NoPolicyQuiet ==
    \A id \in Created :
        no_policy_alert(id) =>
            /\ sends_of(id) = {}
            /\ notifications_of(id) = {}
            /\ \A level \in Levels : timer[id][level].pc = "none"
            /\ create_call[id].pc # "raised"
            /\ create_call[id].pc = "returned" =>
                  id \in active_alerts /\ alerts_table[id].present

\* C19, steps: acknowledge_alert and resolve_alert on such an alert return
\* True and set the status, and the worker's processing of it ends normally.
C19_Step ==
    \A id \in Created :
        (no_policy_alert(id) /\ id \in active_alerts) =>
            /\ \A by \in Actors :
                  /\ acknowledge_alert(id, by)
                     => call_result' = "true" /\ alerts'[id].status = ACKNOWLEDGED
                  /\ resolve_alert(id, by, None)
                     => call_result' = "true" /\ alerts'[id].status = RESOLVED
            /\ \A w \in Workers :
                  (worker[w] = [pc |-> "process", alert |-> id] /\ worker'[w] # worker[w])
                  => worker'[w] = IdleWorker /\ sends' = sends /\ timer' = timer

C19_NoPolicyAlertIsSilent == [][C19_Step]_vars /\ []C19_NoPolicyQuiet

\* An INFO alert under the built-in table: accepted, persisted, processed by
\* a worker without any send, acknowledged and then resolved.
C19_Witness ==
    \E id \in Created :
        /\ escalation_policies = BuiltinPolicies
        /\ alerts[id].severity = INFO
        /\ no_policy_alert(id)
        /\ processed(id)
        /\ id \in active_alerts /\ alerts_table[id].present
        /\ alerts[id].acknowledged_by # None
        /\ alerts[id].status = RESOLVED /\ id \in resolve_ok
        /\ sends = EmptyBag

\* -------------------------------------------------------------------- C20
\* C20: a step that executes the AUTO_RESOLUTION action for an alert leaves
\* the alert with status resolved.
C20_AutoResolveResolves ==
    [][\A id \in Created, by \in {"timer", "sweep"} :
          CopiesIn(action_record(id, AUTO_RESOLUTION, by), actions_run')
              > CopiesIn(action_record(id, AUTO_RESOLUTION, by), actions_run)
          => alerts'[id].status = RESOLVED]_vars

\* -------------------------------------------------------------------- C21
\* C21: a step in which a sqlite call (save_alert, save_notification) raises
\* is local: the call it belongs to does not raise to its caller (create_alert
\* returns the id with the alert in the active index and in the queue,
\* acknowledge_alert / resolve_alert return True), and a worker that meets
\* it still sends on every level-0 channel and arms every timer.
C21_Step ==
    db_failures' > db_failures =>
        /\ \A id \in Created :
              (create_call[id].pc = "inserting" /\ create_call'[id].pc # "inserting")
              => /\ create_call'[id].pc = "returned"
                 /\ id \in active_alerts'
                 /\ \E i \in DOMAIN alert_queue' : alert_queue'[i] = id
        /\ call_result' # "raised"
        /\ \A w \in Workers :
              (worker[w].pc = "process" /\ worker'[w].pc = "idle")
              => /\ \A c \in Range(initial_channels(worker[w].alert)) :
                       \E ok \in BOOLEAN :
                           CopiesIn(send_record(worker[w].alert, c, 0, FALSE, ok), sends') = 1
                 /\ \A level \in Levels :
                       must_arm(worker[w].alert, level)
                       => timer'[worker[w].alert][level].pc = "armed"

C21_PersistenceFailureLocal == [][C21_Step]_vars

\* -------------------------------------------------------------------- C22
\* C22, steps: while no sqlite call raises, every channel send a step makes
\* (level 0 or escalation) adds exactly one notification record for that
\* alert and channel in that step: the success record of the level when the
\* send returned, a "failed" record when it raised.
C22_Step ==
    db_failures' = db_failures =>
        \A id \in Created, c \in ConfiguredChannels, level \in 0 .. MaxLevel, ok \in BOOLEAN :
            LET r == send_record(id, c, level, level > 0, ok)
                rec == notification_record(id, c,
                                           IF ok THEN success_status(level) ELSE "failed")
            IN  CopiesIn(r, sends') > CopiesIn(r, sends)
                => CopiesIn(rec, notifications') = CopiesIn(rec, notifications) + 1

\* C22, states: no send is retried (at most one attempt per alert, channel
\* and level).
C22_NoRetry ==
    \A id \in Created, c \in ConfiguredChannels, level \in 0 .. MaxLevel :
        CopiesIn(send_record(id, c, level, level > 0, TRUE), sends)
        + CopiesIn(send_record(id, c, level, level > 0, FALSE), sends) <= 1

C22_OneRecordPerSend == [][C22_Step]_vars /\ []C22_NoRetry

\* -------------------------------------------------------------------- C23
\* C23: when the callback of level L ends, having started its run on an
\* alert that is neither resolved nor closed, and the alert's policy declares
\* an escalation action for L, that action has been executed by the callback
\* (whether or not the policy lists notification channels for L).
C23_Step ==
    \A id \in Created, level \in Levels :
        (/\ timer[id][level].pc \in {"armed", "level_set"}
         /\ timer'[id][level].pc = "done"
         /\ alerts[id].status \notin TerminalStatuses
         /\ has_policy(alerts[id].severity)
         /\ level \in DOMAIN get_escalation_policy(alerts[id].severity).escalation_rules)
        => CopiesIn(action_record(
                        id,
                        get_escalation_policy(alerts[id].severity).escalation_rules[level],
                        "timer"),
                    actions_run') >= 1

C23_ActionWithoutChannels == [][C23_Step]_vars

\* -------------------------------------------------------------------- C24
\* A callback of the alert is still to run or is running.
escalation_pending(id) ==
    \E level \in Levels : timer[id][level].pc \in {"armed", "checked", "level_set"}

\* C24: under the built-in policies, an accepted alert of a covered severity
\* that a worker has processed (no sqlite call having failed) and that is
\* neither resolved nor closed has, once the delay its policy gives for its
\* severity has elapsed, either been escalated (escalation_level >= 1) or an
\* escalation callback that is still to fire.
C24_BuiltinEscalates ==
    \A id \in Created :
        (/\ escalation_policies = BuiltinPolicies
         /\ db_failures = 0
         /\ processed(id)
         /\ has_policy(alerts[id].severity)
         /\ alerts[id].status \notin TerminalStatuses
         /\ clock >= alerts[id].timestamp
                      + severity_threshold(get_escalation_policy(alerts[id].severity),
                                           alerts[id].severity))
        => \/ alerts[id].escalation_level >= 1
           \/ escalation_pending(id)

\* -------------------------------------------------------------------- C25
\* create_alert has returned the id of an accepted alert whose severity has
\* a policy.
accepted_with_policy(id) ==
    /\ id \in Created
    /\ create_call[id].pc = "returned"
    /\ create_call[id].outcome = "accepted"
    /\ has_policy(alerts[id].severity)

\* C25, steps: a worker that ends process_alert is back at the queue, whatever
\* happened; and when no sqlite call raised in the step, every configured
\* level-0 channel has had its send attempted and every level with a
\* threshold has its timer armed, channel failures or not.
C25_Step ==
    \A w \in Workers :
        (worker[w].pc = "process" /\ worker'[w] # worker[w])
        => /\ worker'[w] = IdleWorker
           /\ db_failures' = db_failures
              => /\ \A c \in Range(initial_channels(worker[w].alert)) :
                       \E ok \in BOOLEAN :
                           CopiesIn(send_record(worker[w].alert, c, 0, FALSE, ok), sends') = 1
                 /\ \A level \in Levels :
                       timer'[worker[w].alert][level].pc =
                           IF must_arm(worker[w].alert, level) THEN "armed" ELSE "none"

creation_fields(a) ==
    [id |-> a.id, severity |-> a.severity, category |-> a.category, source |-> a.source,
     timestamp |-> a.timestamp, dedup_key |-> a.dedup_key, metadata |-> a.metadata]

\* C26: no step changes a creation-time field of an existing alert.
C26_CreationFieldsFrozen ==
    [][\A id \in Created : creation_fields(alerts'[id]) = creation_fields(alerts[id])]_vars


\* C26, amended: no step changes the id, severity, category, source, creation
\* timestamp or dedup key of an existing alert; and the only change a step
\* makes to its metadata is the entry 'resolution_notes' that resolve_alert
\* adds when called with notes (the alert is then resolved, with its actor).
C26_FrozenButResolutionNotes ==
    [][\A id \in Created :
          LET a == alerts[id]
              b == alerts'[id]
          IN  /\ [creation_fields(b) EXCEPT !.metadata = {}]
                 = [creation_fields(a) EXCEPT !.metadata = {}]
              /\ \/ b.metadata = a.metadata
                 \/ /\ b.metadata = a.metadata \cup {"resolution_notes"}
                    /\ b.status = RESOLVED
                    /\ b.resolved_by # None]_vars

\* An alert created at time 0, escalated by its level-1 callback at 300 s,
\* acknowledged, and resolved with notes after that.
C26_Witness ==
    \E id \in Created :
        /\ alerts[id].status = RESOLVED
        /\ "resolution_notes" \in alerts[id].metadata
        /\ alerts[id].acknowledged_by # None
        /\ alerts[id].escalation_level >= 1
        /\ alerts[id].timestamp = 0
        /\ clock > 0


\* -------------------------------------------------------------------- C27
\* C27: for every send_alert call of a CRITICAL alert made with both the
\* email and the slack handler configured, a send on slack has been
\* attempted, whether the email handler's send returned or raised.
C27_SlackAfterEmailFailure ==
    \A call \in DOMAIN health_manager.calls :
        (/\ health_manager.calls[call].severity = CRITICAL
         /\ {EMAIL, SLACK} \subseteq health_manager.notification_handlers)
        => \E i \in DOMAIN health_manager.attempts :
              /\ health_manager.attempts[i].call = call
              /\ health_manager.attempts[i].channel = SLACK


\* -------------------------------------------------------------------- C28
\* C28, steps: every step of an escalation callback of an alert (from the
\* moment its timer fires) starts with the worker having finished
\* process_alert for that alert and with a level-0 send made on every
\* configured level-0 channel of its policy.
C28_Step ==
    \A id \in Created, level \in Levels :
        (timer[id][level].pc # "none" /\ timer'[id][level].pc # timer[id][level].pc)
        => /\ processed(id)
           /\ \A c \in Range(initial_channels(id)) : initial_sends(id, c) = 1

\* C28, states: an alert with an escalation send has its level-0 sends.
C28_InitialBeforeEscalation ==
    \A r \in BagToSet(sends) :
        r.is_escalation =>
            \A c \in Range(initial_channels(r.alert)) : initial_sends(r.alert, c) = 1

C28_InitialFanOutFirst == [][C28_Step]_vars /\ []C28_InitialBeforeEscalation

\* An alert created at time 0 under the two-level policy whose level-1
\* callback has run to its end: level-0 sends on email and slack, level-1
\* escalation sends on both, the level-2 timer still armed.
C28_Witness ==
    \E id \in Created :
        /\ alerts[id].timestamp = 0
        /\ timer[id][1].pc = "done" /\ timer[id][2].pc = "armed"
        /\ alerts[id].status = ESCALATED
        /\ \A c \in {EMAIL, SLACK} :
              /\ initial_sends(id, c) = 1
              /\ \E r \in sends_of(id) : r.is_escalation /\ r.level = 1 /\ r.channel = c


\* -------------------------------------------------------------------- C29
\* C29: every alert of the active index has an escalation_level between 0
\* and the max_escalation_level of its policy (0 without a policy); with
\* status new the level is 0, with status escalated it is at least 1.
C29_LevelBounds ==
    \A id \in active_alerts :
        /\ alerts[id].escalation_level >= 0
        /\ alerts[id].escalation_level <=
              (IF has_policy(alerts[id].severity)
               THEN get_escalation_policy(alerts[id].severity).max_escalation_level
               ELSE 0)
        /\ alerts[id].status = STATUS_NEW => alerts[id].escalation_level = 0
        /\ alerts[id].status = ESCALATED => alerts[id].escalation_level >= 1


\* -------------------------------------------------------------------- C30
\* The number of times the sweep has executed the last-level action of the
\* alert's policy for the alert.
sweep_runs(bag, id) ==
    IF /\ has_policy(alerts[id].severity)
       /\ get_escalation_policy(alerts[id].severity).max_escalation_level
             \in DOMAIN get_escalation_policy(alerts[id].severity).escalation_rules
    THEN CopiesIn(sweep_action(id), bag)
    ELSE 0

\* C30, steps: the sweep executes no action for an alert that is resolved or
\* closed.
C30_Step ==
    \A id \in Created :
        alerts[id].status \in TerminalStatuses
        => sweep_runs(actions_run', id) = sweep_runs(actions_run, id)

\* C30, states: the sweep has executed the last-level action of an alert's
\* policy at most once for the alert.
C30_AtMostOnce == \A id \in Created : sweep_runs(actions_run, id) <= 1

C30_SweepOncePerAlert == [][C30_Step]_vars /\ []C30_AtMostOnce

====
